---- MODULE Spec2Model ----
(***************************************************************************)
(* A model of report_cli.py: the report filter transforms of ReportParser, *)
(* the reading of filter values, and the commands of ReportCli.            *)
(*                                                                         *)
(* A Python dict is a function whose DOMAIN is the dict's key set, a list  *)
(* is a sequence, a str that the code takes apart (a filter code, a file's *)
(* text, a filter value) is a sequence of one-character strings, and any   *)
(* other str is a string.  None, where a dict is expected, is a record no  *)
(* dict of the program equals.                                             *)
(***************************************************************************)
EXTENDS Integers, Sequences, FiniteSets, TLC

VARIABLES
    \* ReportCli
    pc,               \* where control is: at cmdloop's "prompt", "returned" from a
                      \* command, "exited" (do_exit returned True), "crashed" (an
                      \* exception left cmdloop); "start" and "done" where a
                      \* function is applied to a drawn input
    session_params,   \* self.session.params
    invocation,       \* the last command: [cmd, args]
    requests,         \* the HTTP requests the last command sent, in order
    output,           \* the messages the last command printed, in order
    fetched,          \* what get_report returned to the last command
    transformed,      \* the report the last command's transform returned
    saved,            \* the file the last command wrote: [file, content]
    \* ReportParser, applied to a drawn report
    raw_report,       \* the input report
    op,               \* the transform applied: [name, filter_code, new_filter_values]
    result,           \* op(raw_report)
    again,            \* op(op(raw_report))
    \* the filter-values file
    text,             \* f.read()
    values            \* the list update_report_filter passes on

vars == <<pc, session_params, invocation, requests, output, fetched, transformed, saved,
          raw_report, op, result, again, text, values>>

cliVars == <<session_params, invocation, requests, output, fetched, transformed, saved>>
parserVars == <<raw_report, op, result, again>>
fileVars == <<text, values>>

None == [None |-> TRUE]

(***************************************************************************)
(* Bounds                                                                  *)
(***************************************************************************)
\* A drawn report has at most MaxNodes widgets and filter maps together.
MaxNodes == 4
\* A drawn file text has at most MaxLen characters.
MaxLen == 5

(***************************************************************************)
(* str helpers                                                             *)
(***************************************************************************)
UpperCase == <<"A","B","C","D","E","F","G","H","I","J","K","L","M",
               "N","O","P","Q","R","S","T","U","V","W","X","Y","Z">>
LowerCase == <<"a","b","c","d","e","f","g","h","i","j","k","l","m",
               "n","o","p","q","r","s","t","u","v","w","x","y","z">>

LowerChar(c) ==
    IF \E i \in DOMAIN UpperCase : UpperCase[i] = c
    THEN LowerCase[CHOOSE i \in DOMAIN UpperCase : UpperCase[i] = c]
    ELSE c

\* str.lower()
lower(s) == [i \in DOMAIN s |-> LowerChar(s[i])]

(***************************************************************************)
(* ReportParser                                                            *)
(***************************************************************************)
\* Mutant: 'Platform' left out of the set.
PERSISTENT_FILTERS_Connection == {"Connection"}

PERSISTENT_FILTERS == {"Connection", "Platform"}

filter_code_to_name_map ==
    (<<"e","a">> :> "Endpoint Agents") @@
    (<<"e","a","l">> :> "Endpoint Agent Labels") @@
    (<<"l","o","c">> :> "Location") @@
    (<<"p","n">> :> "Private Network") @@
    (<<"n","e","t">> :> "Network") @@
    (<<"m","n">> :> "Monitored Network")

\* {k: v if k in self.PERSISTENT_FILTERS else [] for k, v in filters.items()}
TemplateFilters(filters) ==
    [k \in DOMAIN filters |-> IF k \in PERSISTENT_FILTERS THEN filters[k] ELSE <<>>]

\* The body of get_template_report's loop over report['widgets'].
TemplateWidget(w) ==
    IF "numberCards" \in DOMAIN w
    THEN [w EXCEPT !.numberCards =
            [j \in DOMAIN w.numberCards |->
                [w.numberCards[j] EXCEPT !.filters = TemplateFilters(w.numberCards[j].filters)]]]
    ELSE IF "filters" \in DOMAIN w
    THEN [w EXCEPT !.filters = TemplateFilters(w.filters)]
    ELSE w

get_template_report(report) ==
    [report EXCEPT !.widgets = [i \in DOMAIN report.widgets |-> TemplateWidget(report.widgets[i])]]

\* Mutant: the value is assigned by key, which also injects an absent key.
ChangedFilters_Injects(filters, filter_name, new_filter_values) ==
    [k \in DOMAIN filters \cup {filter_name} |->
        IF k = filter_name THEN new_filter_values ELSE filters[k]]

\* {k: new_filter_values if k == filter_name else v for k, v in filters.items()}
ChangedFilters(filters, filter_name, new_filter_values) ==
    [k \in DOMAIN filters |-> IF k = filter_name THEN new_filter_values ELSE filters[k]]

\* The body of change_filter_value's loop over report['widgets'].
ChangedWidget(w, filter_name, new_filter_values) ==
    IF "numberCards" \in DOMAIN w
    THEN [w EXCEPT !.numberCards =
            [j \in DOMAIN w.numberCards |->
                [w.numberCards[j] EXCEPT !.filters =
                    ChangedFilters(w.numberCards[j].filters, filter_name, new_filter_values)]]]
    ELSE IF "filters" \in DOMAIN w
    THEN [w EXCEPT !.filters = ChangedFilters(w.filters, filter_name, new_filter_values)]
    ELSE w

change_filter_value(report, filter_code, new_filter_values) ==
    IF filter_code \notin DOMAIN filter_code_to_name_map
    THEN report
    ELSE LET filter_name == filter_code_to_name_map[filter_code] IN
         [report EXCEPT !.widgets =
            [i \in DOMAIN report.widgets |->
                ChangedWidget(report.widgets[i], filter_name, new_filter_values)]]

\* Mutant: the new values are appended to the ones already there.
AddedFilters_Appends(filters, filter_name, new_filter_values) ==
    [k \in DOMAIN filters \cup {filter_name} |->
        IF k /= filter_name THEN filters[k]
        ELSE IF k \in DOMAIN filters THEN filters[k] \o new_filter_values
        ELSE new_filter_values]

\* filters[filter_name] = new_filter_values
AddedFilters(filters, filter_name, new_filter_values) ==
    [k \in DOMAIN filters \cup {filter_name} |->
        IF k = filter_name THEN new_filter_values ELSE filters[k]]

\* The body of add_filter_value's loop over report['widgets'].
AddedWidget(w, filter_name, new_filter_values) ==
    IF "numberCards" \in DOMAIN w
    THEN [w EXCEPT !.numberCards =
            [j \in DOMAIN w.numberCards |->
                [w.numberCards[j] EXCEPT !.filters =
                    AddedFilters(w.numberCards[j].filters, filter_name, new_filter_values)]]]
    ELSE IF "filters" \in DOMAIN w
    THEN [w EXCEPT !.filters = AddedFilters(w.filters, filter_name, new_filter_values)]
    ELSE w

\* Mutant: a code that is not in the map is used as the filter's name.
add_filter_value_Unchecked(report, filter_code, new_filter_values) ==
    LET filter_name == IF filter_code \in DOMAIN filter_code_to_name_map
                       THEN filter_code_to_name_map[filter_code]
                       ELSE "unmapped"
    IN  [report EXCEPT !.widgets =
            [i \in DOMAIN report.widgets |->
                AddedWidget(report.widgets[i], filter_name, new_filter_values)]]

add_filter_value(report, filter_code, new_filter_values) ==
    IF filter_code \notin DOMAIN filter_code_to_name_map
    THEN report
    ELSE LET filter_name == filter_code_to_name_map[filter_code] IN
         [report EXCEPT !.widgets =
            [i \in DOMAIN report.widgets |->
                AddedWidget(report.widgets[i], filter_name, new_filter_values)]]

\* if filter_name in filters: del filters[filter_name]
RemovedFilters(filters, filter_name) ==
    IF filter_name \in DOMAIN filters
    THEN [k \in DOMAIN filters \ {filter_name} |-> filters[k]]
    ELSE filters

\* The body of remove_filter's loop over report['widgets'].
RemovedWidget(w, filter_name) ==
    IF "numberCards" \in DOMAIN w
    THEN [w EXCEPT !.numberCards =
            [j \in DOMAIN w.numberCards |->
                [w.numberCards[j] EXCEPT !.filters =
                    RemovedFilters(w.numberCards[j].filters, filter_name)]]]
    ELSE IF "filters" \in DOMAIN w
    THEN [w EXCEPT !.filters = RemovedFilters(w.filters, filter_name)]
    ELSE w

\* Mutant: widgets with neither 'numberCards' nor 'filters' are left out of
\* the returned report.
remove_filter_SkipsBare(report, filter_code) ==
    IF filter_code \notin DOMAIN filter_code_to_name_map
    THEN report
    ELSE LET filter_name == filter_code_to_name_map[filter_code]
             kept == SelectSeq(report.widgets,
                               LAMBDA w : "numberCards" \in DOMAIN w \/ "filters" \in DOMAIN w)
         IN  [report EXCEPT !.widgets =
                [i \in DOMAIN kept |-> RemovedWidget(kept[i], filter_name)]]

remove_filter(report, filter_code) ==
    IF filter_code \notin DOMAIN filter_code_to_name_map
    THEN report
    ELSE LET filter_name == filter_code_to_name_map[filter_code] IN
         [report EXCEPT !.widgets =
            [i \in DOMAIN report.widgets |-> RemovedWidget(report.widgets[i], filter_name)]]

\* The message each of the three prints for a code that is not in the map.
UnsupportedOutput(filter_code) ==
    IF filter_code \notin DOMAIN filter_code_to_name_map
    THEN << "The filter code is not supported" >>
    ELSE << >>

(***************************************************************************)
(* The filter-values file (update_report_filter)                           *)
(***************************************************************************)
\* The characters str.splitlines() ends a line at, among those modelled.
LineBoundaries == {"\n", "\r", "\f"}

\* The characters str.strip() removes, among those modelled.
Whitespace == {" ", "\t", "\n", "\r", "\f"}

\* The index of the first line boundary of s, 0 when it has none.
FirstBoundary(s) ==
    IF \E i \in DOMAIN s : s[i] \in LineBoundaries
    THEN CHOOSE i \in DOMAIN s :
            /\ s[i] \in LineBoundaries
            /\ \A j \in 1..(i - 1) : s[j] \notin LineBoundaries
    ELSE 0

\* str.splitlines(): the lines without their boundaries; a boundary that
\* ends the text opens no further line.
RECURSIVE splitlines(_)
splitlines(s) ==
    IF s = << >> THEN << >>
    ELSE LET b == FirstBoundary(s) IN
         IF b = 0 THEN << s >>
         ELSE << SubSeq(s, 1, b - 1) >> \o splitlines(SubSeq(s, b + 1, Len(s)))

RECURSIVE lstrip(_)
lstrip(s) ==
    IF s /= << >> /\ Head(s) \in Whitespace THEN lstrip(Tail(s)) ELSE s

RECURSIVE rstrip(_)
rstrip(s) ==
    IF s /= << >> /\ s[Len(s)] \in Whitespace THEN rstrip(SubSeq(s, 1, Len(s) - 1)) ELSE s

\* Mutant: only the right end is stripped.
strip_RightOnly(s) == rstrip(s)

\* str.strip()
strip(s) == rstrip(lstrip(s))

\* list(map(lambda x: x.strip(), f.read().splitlines()))
ReadFilterValues(t) ==
    LET lines == splitlines(t) IN [i \in DOMAIN lines |-> strip(lines[i])]

\* The characters a drawn file text is made of.
Chars == {"a", " ", "\n", "\f"}

RECURSIVE TextsOfLen(_)
TextsOfLen(n) ==
    IF n = 0 THEN {<< >>}
    ELSE {Append(t, c) : t \in TextsOfLen(n - 1), c \in Chars}

Texts == UNION {TextsOfLen(n) : n \in 0..MaxLen}

\* The parts of the state a specification does not use stay as they are here.
IdleCli ==
    /\ session_params = << >> /\ invocation = [cmd |-> "none"] /\ requests = << >>
    /\ output = << >> /\ fetched = None /\ transformed = None /\ saved = None
IdleParser ==
    /\ raw_report = None /\ result = None /\ again = None
    /\ op = [name |-> "none", filter_code |-> << >>, new_filter_values |-> << >>]
IdleFile == text = << >> /\ values = << >>

InitFile ==
    /\ pc = "start"
    /\ text \in Texts
    /\ values = << >>
    /\ IdleCli
    /\ IdleParser

ReadValues ==
    /\ pc = "start"
    /\ pc' = "done"
    /\ values' = ReadFilterValues(text)
    /\ UNCHANGED <<text, cliVars, parserVars>>

(***************************************************************************)
(* The drawn inputs of the transforms                                      *)
(***************************************************************************)
\* The filter-values files on disk: name -> text.
FILES ==
    [empty_txt |-> << >>,
     x_txt     |-> << " ", "x", "\n" >>,
     yx_txt    |-> << "y", "\n", "x" >>]

FilterValueLists == {ReadFilterValues(FILES[f]) : f \in DOMAIN FILES}

\* Filter codes as typed: two of the map, one of them in upper case, and
\* one that is in no case a code of the map.
FilterCodes == { <<"l","o","c">>, <<"L","O","C">>, <<"e","a">>, <<"z","z">> }

\* The filter names and stored values the drawn reports use.
DocKeys == {"Connection", "Platform", "Location"}
DocVals == { << <<"x">> >> }

FilterMaps == UNION {[S -> DocVals] : S \in SUBSET DocKeys}

\* The lists of k cards, card j carrying 'id': j beside its 'filters'.
CardSeqs(k) ==
    {[j \in 1..k |-> [id |-> j, filters |-> f[j]]] : f \in [1..k -> FilterMaps]}

\* The widgets of n nodes (the widget and each of its filter maps), without
\* their 'id': with neither 'numberCards' nor 'filters', with 'filters'
\* alone, with 'numberCards' alone, and with both.
WidgetsOfSize(n) ==
    (IF n = 1 THEN {<< >>} ELSE {})
    \cup (IF n = 2 THEN {[filters |-> m] : m \in FilterMaps} ELSE {})
    \cup {[numberCards |-> cs] : cs \in CardSeqs(n - 1)}
    \cup (IF n >= 2
          THEN {[numberCards |-> cs, filters |-> m] : cs \in CardSeqs(n - 2), m \in FilterMaps}
          ELSE {})

\* The widget lists of at most n nodes.
RECURSIVE WidgetSeqs(_)
WidgetSeqs(n) ==
    {<< >>} \cup
    UNION {{<< w >> \o ws : w \in WidgetsOfSize(k), ws \in WidgetSeqs(n - k)} : k \in 1..n}

\* Widget i carries 'id': i, so that a widget can be told from its neighbours.
Labelled(ws) == [i \in DOMAIN ws |-> ("id" :> i) @@ ws[i]]

Reports == {[title |-> "Report", widgets |-> Labelled(ws)] : ws \in WidgetSeqs(MaxNodes)}

(***************************************************************************)
(* The transforms applied to a drawn report                                *)
(***************************************************************************)
InitParser ==
    /\ pc = "start"
    /\ raw_report \in Reports
    /\ op = [name |-> "none", filter_code |-> << >>, new_filter_values |-> << >>]
    /\ result = None
    /\ again = None
    /\ IdleCli
    /\ IdleFile

ApplyGetTemplateReport ==
    /\ pc = "start"
    /\ pc' = "done"
    /\ op' = [name |-> "get_template_report", filter_code |-> << >>, new_filter_values |-> << >>]
    /\ result' = get_template_report(raw_report)
    /\ again' = get_template_report(result')
    /\ UNCHANGED <<raw_report, cliVars, fileVars>>

ApplyChangeFilterValue ==
    /\ pc = "start"
    /\ pc' = "done"
    /\ \E c \in FilterCodes, v \in FilterValueLists :
        /\ op' = [name |-> "change_filter_value", filter_code |-> c, new_filter_values |-> v]
        /\ result' = change_filter_value(raw_report, c, v)
        /\ again' = change_filter_value(result', c, v)
    /\ UNCHANGED <<raw_report, cliVars, fileVars>>

ApplyAddFilterValue ==
    /\ pc = "start"
    /\ pc' = "done"
    /\ \E c \in FilterCodes, v \in FilterValueLists :
        /\ op' = [name |-> "add_filter_value", filter_code |-> c, new_filter_values |-> v]
        /\ result' = add_filter_value(raw_report, c, v)
        /\ again' = add_filter_value(result', c, v)
    /\ UNCHANGED <<raw_report, cliVars, fileVars>>

ApplyRemoveFilter ==
    /\ pc = "start"
    /\ pc' = "done"
    /\ \E c \in FilterCodes :
        /\ op' = [name |-> "remove_filter", filter_code |-> c, new_filter_values |-> << >>]
        /\ result' = remove_filter(raw_report, c)
        /\ again' = remove_filter(result', c)
    /\ UNCHANGED <<raw_report, cliVars, fileVars>>

NextParser ==
    \/ ApplyGetTemplateReport
    \/ ApplyChangeFilterValue
    \/ ApplyAddFilterValue
    \/ ApplyRemoveFilter

SpecParser == InitParser /\ [][NextParser]_vars

(***************************************************************************)
(* The transforms: what is claimed of them                                 *)
(***************************************************************************)
\* The places of a report's filter maps that the transforms are to reach:
\* <<i, 0>> for the filters of widget i when it has no cards list, <<i, j>>
\* for the filters of card j of widget i.
Paths(report) ==
    {<<i, 0>> : i \in {i \in DOMAIN report.widgets :
                        /\ "numberCards" \notin DOMAIN report.widgets[i]
                        /\ "filters" \in DOMAIN report.widgets[i]}}
    \cup UNION {{<<i, j>> : j \in DOMAIN report.widgets[i].numberCards} :
                    i \in {i \in DOMAIN report.widgets :
                            "numberCards" \in DOMAIN report.widgets[i]}}

MapAt(report, p) ==
    IF p[2] = 0 THEN report.widgets[p[1]].filters
    ELSE report.widgets[p[1]].numberCards[p[2]].filters

Applied(name) == pc = "done" /\ op.name = name

Registered == op.filter_code \in DOMAIN filter_code_to_name_map
Field == filter_code_to_name_map[op.filter_code]

\* C2: get_template_report maps, in every filter map of the report (of each
\* widget without cards, of each card), every key other than Connection and
\* Platform to the empty list, leaves the values of Connection and Platform
\* as they were, and adds or removes no key.
C2_TemplateClearsAllButPersistent ==
    Applied("get_template_report") =>
        /\ Paths(result) = Paths(raw_report)
        /\ \A p \in Paths(raw_report) :
            LET m == MapAt(raw_report, p)
                t == MapAt(result, p)
            IN  /\ DOMAIN t = DOMAIN m
                /\ \A k \in DOMAIN m :
                    t[k] = IF k \in {"Connection", "Platform"} THEN m[k] ELSE << >>

\* Scenario A: a widget without cards whose filters hold Connection and a
\* non-empty Location, and beside them a Platform, has been templated.
C2_Witness ==
    /\ Applied("get_template_report")
    /\ \E p \in Paths(raw_report) :
        /\ p[2] = 0
        /\ {"Connection", "Platform", "Location"} \subseteq DOMAIN MapAt(raw_report, p)
        /\ MapAt(raw_report, p).Location /= << >>
        /\ MapAt(result, p).Location = << >>

\* C3: for a registered code, change_filter_value sets the field to the new
\* values in exactly the filter maps that hold the field and leaves a map
\* without it as it was, add_filter_value sets it in every filter map,
\* inserting the key where it is absent; every other key keeps its value.
C3_ChangeReplacesAddInserts ==
    /\ (Applied("change_filter_value") /\ Registered) =>
        /\ Paths(result) = Paths(raw_report)
        /\ \A p \in Paths(raw_report) :
            LET m == MapAt(raw_report, p)
                t == MapAt(result, p)
            IN  /\ Field \notin DOMAIN m => t = m
                /\ Field \in DOMAIN m =>
                    /\ DOMAIN t = DOMAIN m
                    /\ t[Field] = op.new_filter_values
                    /\ \A k \in DOMAIN m \ {Field} : t[k] = m[k]
    /\ (Applied("add_filter_value") /\ Registered) =>
        /\ Paths(result) = Paths(raw_report)
        /\ \A p \in Paths(raw_report) :
            LET m == MapAt(raw_report, p)
                t == MapAt(result, p)
            IN  /\ DOMAIN t = DOMAIN m \cup {Field}
                /\ t[Field] = op.new_filter_values
                /\ \A k \in DOMAIN m \ {Field} : t[k] = m[k]

\* change_filter_value has run, with new values, on a report of which one
\* filter map holds the field, with another value, and another does not.
C3_Witness ==
    /\ Applied("change_filter_value")
    /\ Registered
    /\ \E p, q \in Paths(raw_report) :
        /\ Field \in DOMAIN MapAt(raw_report, p)
        /\ MapAt(raw_report, p)[Field] /= op.new_filter_values
        /\ Field \notin DOMAIN MapAt(raw_report, q)
        /\ DOMAIN MapAt(raw_report, q) /= {}

\* The keys a transform may add to, and drop from, a filter map.
MayAdd == IF op.name = "add_filter_value" /\ Registered THEN {Field} ELSE {}
MayDrop == IF op.name = "remove_filter" /\ Registered THEN {Field} ELSE {}

KeysKept(m, t) ==
    /\ DOMAIN m \ MayDrop \subseteq DOMAIN t
    /\ DOMAIN t \subseteq DOMAIN m \cup MayAdd

\* C6: each transform returns the widgets in their order, the cards of each
\* widget in their order, and every filter map with its key set, but for
\* the field that remove_filter may drop and add_filter_value may add; a
\* widget with neither a cards list nor filters comes back as it was.
C6_OrderAndKeysPreserved ==
    pc = "done" =>
        /\ DOMAIN result = DOMAIN raw_report
        /\ result.title = raw_report.title
        /\ Len(result.widgets) = Len(raw_report.widgets)
        /\ \A i \in DOMAIN raw_report.widgets :
            LET w == raw_report.widgets[i]
                r == result.widgets[i]
            IN  /\ DOMAIN r = DOMAIN w
                /\ r.id = w.id
                /\ "numberCards" \in DOMAIN w =>
                    /\ Len(r.numberCards) = Len(w.numberCards)
                    /\ \A j \in DOMAIN w.numberCards :
                        /\ r.numberCards[j].id = w.numberCards[j].id
                        /\ KeysKept(w.numberCards[j].filters, r.numberCards[j].filters)
                /\ "filters" \in DOMAIN w => KeysKept(w.filters, r.filters)
                /\ ("numberCards" \notin DOMAIN w /\ "filters" \notin DOMAIN w) => r = w

\* remove_filter has dropped a field from a report of several widgets, one
\* of them with neither cards nor filters.
C6_Witness ==
    /\ Applied("remove_filter")
    /\ Registered
    /\ result /= raw_report
    /\ Len(raw_report.widgets) >= 2
    /\ \E i \in DOMAIN raw_report.widgets :
        /\ "numberCards" \notin DOMAIN raw_report.widgets[i]
        /\ "filters" \notin DOMAIN raw_report.widgets[i]

\* C7: each of the four transforms is idempotent: applied to its own result
\* with the same arguments it returns that result.
C7_Idempotent ==
    pc = "done" => again = result

\* add_filter_value has run with a registered code and values, and changed
\* a report that already held the field.
C7_Witness ==
    /\ Applied("add_filter_value")
    /\ Registered
    /\ op.new_filter_values /= << >>
    /\ result /= raw_report
    /\ \E p \in Paths(raw_report) : Field \in DOMAIN MapAt(raw_report, p)

SpecFile == InitFile /\ [][ReadValues]_vars

(***************************************************************************)
(* The filter values: what is claimed of them                              *)
(***************************************************************************)
\* The lines of the text, told from where its line boundaries are: line k
\* lies between boundary k - 1 and boundary k, and a text that does not end
\* in a boundary has a last line after its last boundary.
BoundaryAt(k) ==
    IF k = 0 THEN 0
    ELSE CHOOSE i \in DOMAIN text :
            /\ text[i] \in LineBoundaries
            /\ Cardinality({j \in 1..i : text[j] \in LineBoundaries}) = k

NBoundaries == Cardinality({i \in DOMAIN text : text[i] \in LineBoundaries})

NLines ==
    NBoundaries + (IF text /= << >> /\ text[Len(text)] \notin LineBoundaries THEN 1 ELSE 0)

Line(k) ==
    SubSeq(text, BoundaryAt(k - 1) + 1,
           IF k <= NBoundaries THEN BoundaryAt(k) - 1 ELSE Len(text))

\* v is l without the whitespace at its two ends, and without that only.
IsStripped(v, l) ==
    /\ \E a, b \in 0..Len(l) :
        /\ a + b <= Len(l)
        /\ v = SubSeq(l, a + 1, Len(l) - b)
        /\ \A i \in 1..a : l[i] \in Whitespace
        /\ \A i \in (Len(l) - b + 1)..Len(l) : l[i] \in Whitespace
    /\ v /= << >> => (v[1] \notin Whitespace /\ v[Len(v)] \notin Whitespace)

\* C9, as claimed: the values passed on are the lines of the file, each
\* taken verbatim.
C9_LinesVerbatim ==
    pc = "done" =>
        /\ Len(values) = NLines
        /\ \A k \in 1..NLines : values[k] = Line(k)

\* C9, amended: the values passed on are the lines of the file in their
\* order, one value per line, each line without the whitespace at its two
\* ends; an empty line is an empty value.
C9_LinesStripped ==
    pc = "done" =>
        /\ Len(values) = NLines
        /\ \A k \in 1..NLines : IsStripped(values[k], Line(k))

\* A file has been read that holds an empty line and a line with text
\* between whitespace.
C9_Witness ==
    /\ pc = "done"
    /\ NLines >= 2
    /\ \E k \in 1..NLines : Line(k) = << >> /\ values[k] = << >>
    /\ \E k \in 1..NLines : values[k] /= << >> /\ Len(values[k]) + 2 <= Len(Line(k))

(***************************************************************************)
(* ReportCli                                                               *)
(***************************************************************************)
\* What the commands print.
INVALID_ARGUMENTS_MSG == "Very invalid arguments over there"
NOT_EXIST_MSG == "Report with id does not exist"
DONE_MSG == "Done!"

\* A response body that json.loads() rejects.
NotJson == [NotJson |-> TRUE]
\* The body the endpoint-agent URLs answer with.
EndpointData == [agents |-> << >>]

\* The responses to a GET of a report: r.ok false, r.ok true with a body
\* that is no JSON, r.ok true with a report.  (r.text of a requests
\* response is never None.)
ReportResponses ==
    {[ok |-> FALSE, body |-> NotJson], [ok |-> TRUE, body |-> NotJson]}
    \cup {[ok |-> TRUE, body |-> d] : d \in Reports}

EndpointResponses ==
    {[ok |-> FALSE, body |-> NotJson], [ok |-> TRUE, body |-> NotJson],
     [ok |-> TRUE, body |-> EndpointData]}

\* self.session.get(url): the session's params and auth go with the request.
SessionGet(self_params, url) ==
    [method |-> "GET", url |-> url, params |-> self_params, auth |-> "session", json |-> None]

\* self.session.post(url, json=json)
SessionPost(self_params, url, json) ==
    [method |-> "POST", url |-> url, params |-> self_params, auth |-> "session", json |-> json]

\* get_report: what it sent, printed and returned, and whether json.loads raised.
get_report(self_params, report_id, r) ==
    [requests |-> << SessionGet(self_params, <<"reports", report_id>>) >>,
     output   |-> IF ~r.ok THEN << NOT_EXIST_MSG >> ELSE << >>,
     raised   |-> r.ok /\ r.body = NotJson,
     returned |-> IF r.ok /\ r.body /= NotJson THEN r.body ELSE None]

\* Mutant: the report is posted whether it changed or not.
UpdateAlways(self_params, report_id, raw, new_report) ==
    [requests |-> << [method |-> "POST", url |-> <<"reports", report_id, "update">>,
                      params |-> self_params, auth |-> "session", json |-> new_report] >>,
     output   |-> << "Done!" >>]

\* if new_report != raw_report: post it to the update URL and print 'Done!'
\* (the last step of update_report_filter and of do_remove_filter alike).
UpdateIfChanged(self_params, report_id, raw, new_report) ==
    IF new_report /= raw
    THEN [requests |-> << SessionPost(self_params, <<"reports", report_id, "update">>, new_report) >>,
          output   |-> << DONE_MSG >>]
    ELSE [requests |-> << >>, output |-> << >>]

\* report_parser_func(raw_report, filter_code, values)
CallParser(report_parser_func, raw, filter_code, vals) ==
    CASE report_parser_func = "add_filter_value" -> add_filter_value(raw, filter_code, vals)
      [] report_parser_func = "change_filter_value" -> change_filter_value(raw, filter_code, vals)

\* A command's effect: where control goes, the session's params after it,
\* and what it sent, printed, fetched, transformed and wrote.
Effect(pc1, params1, reqs, out, raw, new_report, file) ==
    [pc |-> pc1, session_params |-> params1, requests |-> reqs, output |-> out,
     fetched |-> raw, transformed |-> new_report, saved |-> file]

\* update_report_filter, entered with the session's params as the command set them.
update_report_filter(self_params, args, report_parser_func, r) ==
    LET report_id == args[1]
        filter_code == args[2]
        file_name == args[3]
        got == get_report(self_params, report_id, r)
        raw == got.returned
        vals == ReadFilterValues(FILES[file_name])
        new_report == CallParser(report_parser_func, raw, lower(filter_code), vals)
        upd == UpdateIfChanged(self_params, report_id, raw, new_report)
    IN  IF got.raised
        THEN Effect("crashed", self_params, got.requests, got.output, None, None, None)
        ELSE IF raw = None
        THEN Effect("returned", self_params, got.requests, got.output, None, None, None)
        ELSE Effect("returned", << >>,
                    got.requests \o upd.requests,
                    got.output \o UnsupportedOutput(lower(filter_code)) \o upd.output,
                    raw, new_report, None)

\* The tokens of the command lines: parse_arg(arg) is arg.split().
ReportIds == {"1"}
AccountGroups == {"77"}
DestinationFiles == {"out.json"}

\* What a command does with the wrong number of arguments.
InvalidArguments(self_params) ==
    Effect("returned", self_params, << >>, << INVALID_ARGUMENTS_MSG >>, None, None, None)

\* do_get_report and do_get_template up to the fetch: the params they set.
ParamsOfOptionalAid(args, n) ==
    IF Len(args) = n THEN << >> ELSE [aid |-> args[n + 1]]

do_get_report_effect(self_params, args, r) ==
    IF Len(args) \notin {2, 3} THEN InvalidArguments(self_params)
    ELSE LET params == ParamsOfOptionalAid(args, 2)
             got == get_report(params, args[1], r)
             out == << "Getting your report" >> \o got.output
         IN  IF got.raised
             THEN Effect("crashed", params, got.requests, out, None, None, None)
             ELSE IF got.returned = None
             THEN Effect("returned", params, got.requests, out, None, None, None)
             ELSE Effect("returned", << >>, got.requests,
                         out \o << "Your report is saved!" >>,
                         got.returned, None,
                         [file |-> args[2], content |-> got.returned])

do_get_template_effect(self_params, args, r) ==
    IF Len(args) \notin {2, 3} THEN InvalidArguments(self_params)
    ELSE LET params == ParamsOfOptionalAid(args, 2)
             got == get_report(params, args[1], r)
             out == << "Getting your template report" >> \o got.output
             template == get_template_report(got.returned)
         IN  IF got.raised
             THEN Effect("crashed", params, got.requests, out, None, None, None)
             ELSE IF got.returned = None
             THEN Effect("returned", params, got.requests, out, None, None, None)
             ELSE Effect("returned", << >>, got.requests,
                         out \o << "Your template report is saved!" >>,
                         got.returned, template,
                         [file |-> args[2], content |-> template])

do_add_filter_effect(self_params, args, r) ==
    IF Len(args) \notin {3, 4} THEN InvalidArguments(self_params)
    ELSE update_report_filter(ParamsOfOptionalAid(args, 3), SubSeq(args, 1, 3),
                              "add_filter_value", r)

do_change_filter_value_effect(self_params, args, r) ==
    IF Len(args) \notin {3, 4} THEN InvalidArguments(self_params)
    ELSE update_report_filter(ParamsOfOptionalAid(args, 3), SubSeq(args, 1, 3),
                              "change_filter_value", r)

do_remove_filter_effect(self_params, args, r) ==
    IF Len(args) \notin {2, 3} THEN InvalidArguments(self_params)
    ELSE LET params == ParamsOfOptionalAid(args, 2)
             report_id == args[1]
             filter_code == args[2]
             got == get_report(params, report_id, r)
             raw == got.returned
             new_report == remove_filter(raw, lower(filter_code))
             upd == UpdateIfChanged(params, report_id, raw, new_report)
         IN  IF got.raised
             THEN Effect("crashed", params, got.requests, got.output, None, None, None)
             ELSE IF raw = None
             THEN Effect("returned", params, got.requests, got.output, None, None, None)
             ELSE Effect("returned", << >>,
                         got.requests \o upd.requests,
                         got.output \o UnsupportedOutput(lower(filter_code)) \o upd.output,
                         raw, new_report, None)

\* data_type_to_api_url_map of do_get_endpoint_data
data_type_to_api_url_map ==
    (<<"e","a">> :> <<"endpoint-agents.json">>) @@
    (<<"e","a","l">> :> <<"groups", "endpoint-agents.json">>) @@
    (<<"p","n">> :> <<"endpoint-data", "networks.json">>)

\* do_get_endpoint_data: an unsupported data type is reported and then looked
\* up all the same (KeyError); and after a good response r.txt is read, which
\* no response has (AttributeError).
do_get_endpoint_data_effect(self_params, args, r) ==
    IF Len(args) /= 2 THEN InvalidArguments(self_params)
    ELSE LET data_type_code == lower(args[1]) IN
         IF data_type_code \notin DOMAIN data_type_to_api_url_map
         THEN Effect("crashed", self_params, << >>,
                     << "Unsupported data type code" >>, None, None, None)
         ELSE LET reqs == << SessionGet(self_params, data_type_to_api_url_map[data_type_code]) >> IN
              IF ~r.ok
              THEN Effect("returned", self_params, reqs, << "Error :(" >>, None, None, None)
              ELSE Effect("crashed", self_params, reqs, << >>, None, None, None)

do_find_endpoint_agent_effect(self_params, args, r) ==
    IF Len(args) < 2 THEN InvalidArguments(self_params)
    ELSE LET reqs == << SessionGet(self_params, <<"endpoint-agents.json">>) >> IN
         IF ~r.ok
         THEN Effect("returned", self_params, reqs, << "Error :(" >>, None, None, None)
         ELSE IF r.body = NotJson
         THEN Effect("crashed", self_params, reqs, << >>, None, None, None)
         ELSE Effect("returned", self_params, reqs, << "All saved in the file!" >>,
                     None, None, [file |-> args[1], content |-> r.body])

positive_answer ==
    {"yes", "Yes", "YES", "ye", "Ye", "Y", "y", "yep", "Yep", "Yarp", "yarp"}

\* do_export_to_acc_group: answer and new_name are what the user types at
\* the two prompts, status_code is the create request's answer.
do_export_to_acc_group_effect(self_params, args, r, answer, new_name, status_code) ==
    IF Len(args) \notin {3, 5} THEN InvalidArguments(self_params)
    ELSE LET auth == IF Len(args) = 3 THEN "session" ELSE << args[4], args[5] >>
             report_id == args[1]
             params == [aid |-> args[2]]
             dest_acc_group_id == args[3]
             got == get_report(params, report_id, r)
             renamed == answer \in positive_answer
             report == IF renamed THEN [got.returned EXCEPT !.title = new_name]
                       ELSE got.returned
             create == [method |-> "POST", url |-> <<"reports", "create">>,
                        params |-> [aid |-> dest_acc_group_id], auth |-> auth,
                        json |-> report]
             prompts == << "Would you like to rename your export report? [y/n]" >>
                        \o (IF renamed
                            THEN << "Please give me the new name you want for the report." >>
                            ELSE << >>)
             outcome == IF status_code = 401
                        THEN "You are not authorised, check your credential"
                        ELSE "Your report is successfully exported"
         IN  IF got.raised
             THEN Effect("crashed", params, got.requests, got.output, None, None, None)
             ELSE IF got.returned = None
             THEN Effect("returned", params, got.requests, got.output, None, None, None)
             ELSE Effect("returned", << >>, got.requests \o << create >>,
                         got.output \o prompts \o << outcome >>,
                         got.returned, report, None)

\* The command has run: the state is its effect.
Ran(cmd, args, e) ==
    /\ pc' = e.pc
    /\ session_params' = e.session_params
    /\ invocation' = [cmd |-> cmd, args |-> args]
    /\ requests' = e.requests
    /\ output' = e.output
    /\ fetched' = e.fetched
    /\ transformed' = e.transformed
    /\ saved' = e.saved
    /\ UNCHANGED <<parserVars, fileVars>>

\* The argument lists tried: the two right lengths and wrong ones.
FetchArgs ==
    {<<i, f>> : i \in ReportIds, f \in DestinationFiles}
    \cup {<<i, f, a>> : i \in ReportIds, f \in DestinationFiles, a \in AccountGroups}
    \cup {<<i>> : i \in ReportIds}

UpdateArgs ==
    {<<i, c, f>> : i \in ReportIds, c \in FilterCodes, f \in DOMAIN FILES}
    \cup {<<i, c, f, a>> : i \in ReportIds, c \in FilterCodes, f \in DOMAIN FILES,
                           a \in AccountGroups}
    \cup {<<i>> : i \in ReportIds}

RemoveArgs ==
    {<<i, c>> : i \in ReportIds, c \in FilterCodes}
    \cup {<<i, c, a>> : i \in ReportIds, c \in FilterCodes, a \in AccountGroups}
    \cup {<<i>> : i \in ReportIds}

EndpointDataArgs ==
    {<<c, f>> : c \in { <<"E","A">>, <<"p","n">>, <<"l","o","c">> }, f \in DestinationFiles}
    \cup {<<f>> : f \in DestinationFiles}

FindArgs ==
    {<<f, "keyword">> : f \in DestinationFiles} \cup {<<f>> : f \in DestinationFiles}

ExportArgs ==
    {<<i, a, "88">> : i \in ReportIds, a \in AccountGroups}
    \cup {<<i, a, "88", "user", "token">> : i \in ReportIds, a \in AccountGroups}
    \cup {<<i, a>> : i \in ReportIds, a \in AccountGroups}

Init ==
    /\ pc = "prompt"
    /\ session_params = [format |-> "json"]
    /\ invocation = [cmd |-> "none", args |-> << >>]
    /\ requests = << >>
    /\ output = << >>
    /\ fetched = None
    /\ transformed = None
    /\ saved = None
    /\ IdleParser
    /\ IdleFile

do_exit ==
    /\ pc = "prompt"
    /\ Ran("exit", << >>,
           Effect("exited", session_params, << >>, << "Bye ;)" >>, None, None, None))

do_get_report ==
    /\ pc = "prompt"
    /\ \E args \in FetchArgs, r \in ReportResponses :
        Ran("get_report", args, do_get_report_effect(session_params, args, r))

do_get_template ==
    /\ pc = "prompt"
    /\ \E args \in FetchArgs, r \in ReportResponses :
        Ran("get_template", args, do_get_template_effect(session_params, args, r))

do_get_endpoint_data ==
    /\ pc = "prompt"
    /\ \E args \in EndpointDataArgs, r \in EndpointResponses :
        Ran("get_endpoint_data", args, do_get_endpoint_data_effect(session_params, args, r))

do_find_endpoint_agent ==
    /\ pc = "prompt"
    /\ \E args \in FindArgs, r \in EndpointResponses :
        Ran("find_endpoint_agent", args, do_find_endpoint_agent_effect(session_params, args, r))

do_add_filter ==
    /\ pc = "prompt"
    /\ \E args \in UpdateArgs, r \in ReportResponses :
        Ran("add_filter", args, do_add_filter_effect(session_params, args, r))

do_remove_filter ==
    /\ pc = "prompt"
    /\ \E args \in RemoveArgs, r \in ReportResponses :
        Ran("remove_filter", args, do_remove_filter_effect(session_params, args, r))

do_change_filter_value ==
    /\ pc = "prompt"
    /\ \E args \in UpdateArgs, r \in ReportResponses :
        Ran("change_filter_value", args, do_change_filter_value_effect(session_params, args, r))

do_export_to_acc_group ==
    /\ pc = "prompt"
    /\ \E args \in ExportArgs, r \in ReportResponses,
          answer \in {"y", "n"}, status_code \in {200, 401} :
        Ran("export_to_acc_group", args,
            do_export_to_acc_group_effect(session_params, args, r, answer, "Copy", status_code))

\* cmdloop goes on to its next prompt; what the last command sent and
\* printed is behind it, the session's params stay.
cmdloop ==
    /\ pc = "returned"
    /\ pc' = "prompt"
    /\ invocation' = [cmd |-> "none", args |-> << >>]
    /\ requests' = << >>
    /\ output' = << >>
    /\ fetched' = None
    /\ transformed' = None
    /\ saved' = None
    /\ UNCHANGED <<session_params, parserVars, fileVars>>

Next ==
    \/ cmdloop
    \/ do_exit
    \/ do_get_report
    \/ do_get_template
    \/ do_get_endpoint_data
    \/ do_find_endpoint_agent
    \/ do_add_filter
    \/ do_remove_filter
    \/ do_change_filter_value
    \/ do_export_to_acc_group

Spec == Init /\ [][Next]_vars

(***************************************************************************)
(* ReportCli: what is claimed of it                                        *)
(***************************************************************************)
\* The last command was one of the three that update a report's filters,
\* called with a right number of arguments.
UpdateInvoked ==
    \/ /\ invocation.cmd \in {"add_filter", "change_filter_value"}
       /\ Len(invocation.args) \in {3, 4}
    \/ /\ invocation.cmd = "remove_filter"
       /\ Len(invocation.args) \in {2, 3}

\* The requests of the last command that post to its report's update URL.
Submits ==
    {i \in DOMAIN requests :
        /\ requests[i].method = "POST"
        /\ requests[i].url = <<"reports", invocation.args[1], "update">>}

Writes == {i \in DOMAIN requests : requests[i].method /= "GET"}

CodeSupported == lower(invocation.args[2]) \in DOMAIN filter_code_to_name_map

\* C1: an update command whose fetch succeeded submits, once and the
\* transformed report, if and only if that report differs from the fetched
\* one; when they are equal it writes nothing to the network.
C1_SubmitIffChanged ==
    (UpdateInvoked /\ fetched /= None) =>
        /\ pc = "returned"
        /\ transformed /= fetched =>
            /\ Cardinality(Submits) = 1
            /\ Writes = Submits
            /\ \A i \in Submits : requests[i].json = transformed
        /\ transformed = fetched => Writes = {}

\* An update command with a supported code has changed the fetched report
\* and submitted it.
C1_Witness ==
    /\ UpdateInvoked
    /\ fetched /= None
    /\ CodeSupported
    /\ transformed /= fetched
    /\ Submits /= {}

\* C4: with a filter code that is not in the registry the transform returns
\* the fetched report as it is, the command prints that the code is not
\* supported, and nothing is submitted.
C4_UnsupportedCodeChangesNothing ==
    (UpdateInvoked /\ fetched /= None /\ ~CodeSupported) =>
        /\ transformed = fetched
        /\ output = << "The filter code is not supported" >>
        /\ Writes = {}

\* add_filter was called with an unsupported code on a report that has
\* filter maps.
C4_Witness ==
    /\ UpdateInvoked
    /\ invocation.cmd = "add_filter"
    /\ fetched /= None
    /\ ~CodeSupported
    /\ Paths(fetched) /= {}

\* C5: when the fetch of an update command fails or yields no parsable
\* document, the command ends with the not-found message, having run no
\* transform and submitted nothing.
C5_FailedFetchIsNotFound ==
    (UpdateInvoked /\ fetched = None) =>
        /\ pc = "returned"
        /\ output = << NOT_EXIST_MSG >>
        /\ transformed = None
        /\ Writes = {}

\* C8: an update command that returns has printed exactly one message,
\* whether it found no report, had an unsupported code, changed nothing or
\* submitted a change.
C8_OneMessagePerOutcome ==
    (UpdateInvoked /\ pc = "returned") => Len(output) = 1

\* The arguments of the last command name an account group.
AidGiven ==
    \/ invocation.cmd \in {"get_report", "get_template", "remove_filter"}
        /\ Len(invocation.args) = 3
    \/ invocation.cmd \in {"add_filter", "change_filter_value"}
        /\ Len(invocation.args) = 4
    \/ invocation.cmd = "export_to_acc_group"

\* C10: a command called without an account group sends no request with an
\* 'aid' parameter, whatever the commands before it were.
C10_NoScopeLeftOver ==
    ~AidGiven => \A i \in DOMAIN requests : "aid" \notin DOMAIN requests[i].params

====
